---- MODULE Spec2Model ----
(***************************************************************************)
(* State-machine model of air_hockey.py: the experiment driver (one action *)
(* per statement group of experiment()), and the shape arithmetic of       *)
(* CriticNetwork.forward / ActorNetwork.forward.                           *)
(*                                                                         *)
(* Tensors are modelled by their shapes (sequences of positive integers);  *)
(* a raised shape error is the shape ShapeError.                           *)
(***************************************************************************)
EXTENDS Integers, Sequences, FiniteSets, TLC

VARIABLES
    pc,                 \* position of experiment(): the next statement group
    env_type,           \* argument env_type
    n_epochs,           \* argument n_epochs
    n_steps,            \* argument n_steps
    n_steps_test,       \* argument n_steps_test
    agent_path,         \* argument agent_path (None or a path)
    obs_shape,          \* mdp.info.observation_space.shape of the environment
    act_shape,          \* mdp.info.action_space.shape of the environment
    mdp,                \* the environment constructed, or None
    actor_mu_params,    \* dict built at lines 100-104, or None
    actor_sigma_params, \* dict built at lines 105-109, or None
    critic_params,      \* dict built at lines 115-122, or None
    agent,              \* the agent: how it was built or loaded (its replay memory and
                        \* parameters belong to the framework and are not state here)
    core,               \* whether Core(agent, mdp) exists
    n,                  \* loop variable of the epoch loop
    dataset,            \* the dataset bound to `dataset` (number of the evaluate call), 0 = unbound
    s,                  \* the states parsed from a dataset (number of that dataset), 0 = unbound
    files,              \* checkpoint paths written by agent.save
    error,              \* exception that ended the run, or None
    calls,              \* every call to a collaborator, in program order
    net_op,             \* which network forward was applied (network specification)
    net_dims,           \* (batch_size, obs_dim, action_dim, feature_width)
    net_in,             \* shapes of the forward() arguments
    net_out             \* shape of the forward() result

driver_vars == <<pc, env_type, n_epochs, n_steps, n_steps_test, agent_path,
                 obs_shape, act_shape, mdp, actor_mu_params, actor_sigma_params,
                 critic_params, agent, core, n, dataset, s, files, error, calls>>
net_vars == <<net_op, net_dims, net_in, net_out>>
vars == <<driver_vars, net_vars>>

None == "None"

\* ---------------------------------------------------------------- bounds
MaxEpochs == 2
MaxSteps == 2
MaxStepsTest == 1
MaxShapeDim == 2
MaxRank == 2
MaxBatch == 3
MaxDim == 3
MaxFeatures == 2

\* ------------------------------------------------------ program constants
initial_replay_size == 5000
max_replay_size == 200000
batch_size == 64
n_features == 128
warmup_transitions == 10000
EvalOnlyEpisodes == 20
DemoEpisodes == 5

\* ------------------------------------------------------------- shapes
ShapeError == <<-1>>

ShapesOfRank(r) == [1..r -> 1..MaxShapeDim]
\* Observation spaces of every rank up to MaxRank; action spaces are vectors.
Shapes == UNION {ShapesOfRank(r) : r \in 1..MaxRank}
ActionShapes == ShapesOfRank(1)

Last(sh) == sh[Len(sh)]

\* ------------------------------------------------------ records of the driver
NoParams == [set |-> FALSE, network |-> None, n_features |-> 0,
             input_shape |-> <<>>, output_shape |-> <<>>]

NoAgent == [built |-> FALSE, loaded_from |-> None, batch_size |-> 0,
            initial_size |-> 0, max_size |-> 0, warmup |-> 0]

\* One call to a collaborator; the fields a call does not pass keep these defaults.
Call(op) == [op |-> op, n_steps |-> 0, n_steps_per_fit |-> 0, n_episodes |-> 0,
             render |-> FALSE, path |-> None, epoch |-> -1,
             J_of |-> 0, R_of |-> 0, E_of |-> 0]

Record(c) == calls' = Append(calls, c)

\* Positions in `calls` of the calls to `op`.
CallsOf(op) == {i \in 1..Len(calls) : calls[i].op = op}
NumEvaluate == Cardinality(CallsOf("evaluate"))

InitialPath(e) == "agents/air_hockey_" \o e \o "_initial.msh"
FinalPath(e) == "agents/air_hockey_" \o e \o ".msh"

\* ------------------------------------------------------ tensor operations
\* torch.cat((a, b), dim=1): same rank, at least 2, and equal sizes off dim 1.
Cat1(a, b) ==
    IF a = ShapeError \/ b = ShapeError THEN ShapeError
    ELSE IF Len(a) # Len(b) \/ Len(a) < 2 THEN ShapeError
    ELSE IF \E i \in 1..Len(a) : i # 2 /\ a[i] # b[i] THEN ShapeError
    ELSE [a EXCEPT ![2] = a[2] + b[2]]

\* nn.Linear(n_in, n_out) applied to x: the last axis must have size n_in.
Linear(x, n_in, n_out) ==
    IF x = ShapeError THEN ShapeError
    ELSE IF Len(x) = 0 THEN ShapeError
    ELSE IF Last(x) # n_in THEN ShapeError
    ELSE [x EXCEPT ![Len(x)] = n_out]

\* F.relu and .float() keep the shape.
Relu(x) == x
Float(x) == x

\* torch.squeeze(x): every axis of size 1 is removed.
SqueezeAll(x) ==
    IF x = ShapeError THEN ShapeError
    ELSE SelectSeq(x, LAMBDA d : d # 1)

\* torch.squeeze(x, 1): axis 1 is removed when its size is 1.
SqueezeDim1(x) ==
    IF x = ShapeError THEN ShapeError
    ELSE IF Len(x) < 2 THEN ShapeError
    ELSE IF x[2] = 1 THEN <<x[1]>> \o SubSeq(x, 3, Len(x))
    ELSE x

\* ------------------------------------------------ network constructors
\* n_input = input_shape[-1]; n_output = output_shape[0]
CriticNInput(params) == Last(params.input_shape)
CriticNOutput(params) == params.output_shape[1]
ActorNInput(params) == Last(params.input_shape)
ActorNOutput(params) == params.output_shape[1]

\* Lines 34-40, on a network built from params.
CriticForward(params, state, action) ==
    LET n_input == CriticNInput(params)
        n_output == CriticNOutput(params)
        nf == params.n_features
        state_action == Cat1(Float(state), Float(action))
        features1 == Relu(Linear(state_action, n_input, nf))
        features2 == Relu(Linear(features1, nf, nf))
        q == Linear(features2, nf, n_output)
    IN  SqueezeAll(q)

\* Lines 61-66, on a network built from params.
ActorForward(params, state) ==
    LET n_input == ActorNInput(params)
        n_output == ActorNOutput(params)
        nf == params.n_features
        features1 == Relu(Linear(Float(SqueezeDim1(state)), n_input, nf))
        features2 == Relu(Linear(features1, nf, nf))
        a == Linear(features2, nf, n_output)
    IN  a

\* ---------------------------------------------------------------- driver
EnvTypes == {"hit", "defend", "other"}
AgentPaths == {None, "agents/air_hockey_defend.msh"}

NetIdle ==
    /\ net_op = "none"
    /\ net_dims = <<0, 0, 0, 0>>
    /\ net_in = <<>>
    /\ net_out = <<>>

Init ==
    /\ pc = "start"
    /\ env_type \in EnvTypes
    /\ n_epochs \in 0..MaxEpochs
    /\ n_steps \in 1..MaxSteps
    /\ n_steps_test \in 1..MaxStepsTest
    /\ agent_path \in AgentPaths
    /\ obs_shape \in Shapes
    /\ act_shape \in ActionShapes
    /\ mdp = None
    /\ actor_mu_params = NoParams
    /\ actor_sigma_params = NoParams
    /\ critic_params = NoParams
    /\ agent = NoAgent
    /\ core = FALSE
    /\ n = 0
    /\ dataset = 0
    /\ s = 0
    /\ files = {}
    /\ error = None
    /\ calls = <<>>
    /\ NetIdle

\* SelectEnv with the final branch constructing a default environment
\* instead of raising.
SelectEnv_DefaultsToHit ==
    /\ pc = "start"
    /\ IF env_type = "defend"
       THEN /\ mdp' = "AirHockeyDefend"
            /\ calls' = calls \o <<Call("Logger"), Call("info"), Call("AirHockeyDefend")>>
       ELSE /\ mdp' = "AirHockeyHit"
            /\ calls' = calls \o <<Call("Logger"), Call("info"), Call("AirHockeyHit")>>
    /\ pc' = "settings"
    /\ UNCHANGED <<env_type, n_epochs, n_steps, n_steps_test, agent_path, obs_shape,
                   act_shape, actor_mu_params, actor_sigma_params, critic_params,
                   agent, core, n, dataset, s, files, error>>
    /\ UNCHANGED net_vars

\* Lines 70-85: seed, logger and its first message, environment selection.
SelectEnv ==
    /\ pc = "start"
    /\ IF env_type = "hit"
       THEN /\ mdp' = "AirHockeyHit"
            /\ calls' = calls \o <<Call("Logger"), Call("info"), Call("AirHockeyHit")>>
            /\ pc' = "settings"
            /\ error' = error
       ELSE IF env_type = "defend"
       THEN /\ mdp' = "AirHockeyDefend"
            /\ calls' = calls \o <<Call("Logger"), Call("info"), Call("AirHockeyDefend")>>
            /\ pc' = "settings"
            /\ error' = error
       ELSE /\ mdp' = mdp
            /\ calls' = calls \o <<Call("Logger"), Call("info")>>
            /\ pc' = "raised"
            /\ error' = "NotImplementedError"
    /\ UNCHANGED <<env_type, n_epochs, n_steps, n_steps_test, agent_path, obs_shape,
                   act_shape, actor_mu_params, actor_sigma_params, critic_params,
                   agent, core, n, dataset, s, files>>
    /\ UNCHANGED net_vars

\* Line 99.
ActorInputShape == obs_shape

\* Line 114.
CriticInputShape == <<ActorInputShape[1] + act_shape[1]>>

\* Lines 87-122: settings and the approximator configuration.
BuildParams ==
    /\ pc = "settings"
    /\ actor_mu_params' = [set |-> TRUE, network |-> "ActorNetwork",
                           n_features |-> n_features,
                           input_shape |-> ActorInputShape,
                           output_shape |-> act_shape]
    /\ actor_sigma_params' = [set |-> TRUE, network |-> "ActorNetwork",
                              n_features |-> n_features,
                              input_shape |-> ActorInputShape,
                              output_shape |-> act_shape]
    /\ critic_params' = [set |-> TRUE, network |-> "CriticNetwork",
                         n_features |-> n_features,
                         input_shape |-> CriticInputShape,
                         output_shape |-> <<1>>]
    /\ pc' = "agent"
    /\ UNCHANGED <<env_type, n_epochs, n_steps, n_steps_test, agent_path, obs_shape,
                   act_shape, mdp, agent, core, n, dataset, s, files, error, calls>>
    /\ UNCHANGED net_vars

\* Lines 125-128: the agent as constructed from the settings of lines 88-93.
FreshAgent ==
    [built |-> TRUE, loaded_from |-> None, batch_size |-> batch_size,
     initial_size |-> initial_replay_size, max_size |-> max_replay_size,
     warmup |-> warmup_transitions]

\* Line 133: the agents a checkpoint file can hold. agent.load returns a new
\* agent whose hyperparameters are the checkpoint's: one saved by this
\* script, and one saved under other hyperparameters.
CheckpointAgents ==
    { FreshAgent,
      [FreshAgent EXCEPT !.batch_size = 2 * batch_size,
                         !.initial_size = 2 * initial_replay_size,
                         !.warmup = 2 * warmup_transitions] }

\* Lines 125-128: the agent.
BuildAgent ==
    /\ pc = "agent"
    /\ agent' = FreshAgent
    /\ Record(Call("SAC"))
    /\ pc' = "load"
    /\ UNCHANGED <<env_type, n_epochs, n_steps, n_steps_test, agent_path, obs_shape,
                   act_shape, mdp, actor_mu_params, actor_sigma_params, critic_params,
                   core, n, dataset, s, files, error>>
    /\ UNCHANGED net_vars

\* Lines 132-136: with a path, agent.load(agent_path) either returns the
\* checkpoint's agent or raises (no such file), which ends the run; then the
\* Core is built.
LoadAndBuildCore ==
    /\ pc = "load"
    /\ \/ /\ agent_path = None
          /\ agent' = agent
          /\ calls' = Append(calls, Call("Core"))
          /\ core' = TRUE
          /\ pc' = "branch"
          /\ error' = error
       \/ /\ agent_path # None
          /\ \E ck \in CheckpointAgents :
                agent' = [ck EXCEPT !.loaded_from = agent_path]
          /\ calls' = calls \o <<[Call("load") EXCEPT !.path = agent_path], Call("Core")>>
          /\ core' = TRUE
          /\ pc' = "branch"
          /\ error' = error
       \/ /\ agent_path # None
          /\ agent' = agent
          /\ calls' = Append(calls, [Call("load") EXCEPT !.path = agent_path])
          /\ core' = core
          /\ pc' = "raised"
          /\ error' = "FileNotFoundError"
    /\ UNCHANGED <<env_type, n_epochs, n_steps, n_steps_test, agent_path, obs_shape,
                   act_shape, mdp, actor_mu_params, actor_sigma_params, critic_params,
                   n, dataset, s, files>>
    /\ UNCHANGED net_vars

\* Lines 138-140: with a checkpoint path, a rendered evaluation and return.
EvaluateOnly ==
    /\ pc = "branch"
    /\ agent_path # None
    /\ Record([Call("evaluate") EXCEPT !.n_episodes = EvalOnlyEpisodes, !.render = TRUE])
    /\ pc' = "done"
    /\ UNCHANGED <<env_type, n_epochs, n_steps, n_steps_test, agent_path, obs_shape,
                   act_shape, mdp, actor_mu_params, actor_sigma_params, critic_params,
                   agent, core, n, dataset, s, files, error>>
    /\ UNCHANGED net_vars

\* BaselineEvaluate reached also after the evaluation-only branch (line 140's
\* return missing).
BaselineEvaluate_NoReturn ==
    /\ \/ pc = "branch" /\ agent_path = None
       \/ pc = "done" /\ agent_path # None /\ Len(calls) > 0
                      /\ calls[Len(calls)].n_episodes = EvalOnlyEpisodes
    /\ Record([Call("evaluate") EXCEPT !.n_steps = n_steps_test, !.render = TRUE])
    /\ dataset' = NumEvaluate + 1
    /\ s' = NumEvaluate + 1
    /\ pc' = "baseline_log"
    /\ UNCHANGED <<env_type, n_epochs, n_steps, n_steps_test, agent_path, obs_shape,
                   act_shape, mdp, actor_mu_params, actor_sigma_params, critic_params,
                   agent, core, n, files, error>>
    /\ UNCHANGED net_vars

\* Lines 144-145: the evaluation before training.
BaselineEvaluate ==
    /\ pc = "branch"
    /\ agent_path = None
    /\ Record([Call("evaluate") EXCEPT !.n_steps = n_steps_test, !.render = TRUE])
    /\ dataset' = NumEvaluate + 1
    /\ s' = NumEvaluate + 1
    /\ pc' = "baseline_log"
    /\ UNCHANGED <<env_type, n_epochs, n_steps, n_steps_test, agent_path, obs_shape,
                   act_shape, mdp, actor_mu_params, actor_sigma_params, critic_params,
                   agent, core, n, files, error>>
    /\ UNCHANGED net_vars

\* Lines 147-151: J, R, E of the dataset, logged as epoch 0.
BaselineLog ==
    /\ pc = "baseline_log"
    /\ Record([Call("epoch_info") EXCEPT !.epoch = 0, !.J_of = dataset,
                                         !.R_of = dataset, !.E_of = s])
    /\ pc' = "save_initial"
    /\ UNCHANGED <<env_type, n_epochs, n_steps, n_steps_test, agent_path, obs_shape,
                   act_shape, mdp, actor_mu_params, actor_sigma_params, critic_params,
                   agent, core, n, dataset, s, files, error>>
    /\ UNCHANGED net_vars

\* Line 153.
SaveInitial ==
    /\ pc = "save_initial"
    /\ Record([Call("save") EXCEPT !.path = InitialPath(env_type)])
    /\ files' = files \cup {InitialPath(env_type)}
    /\ pc' = "warmup"
    /\ UNCHANGED <<env_type, n_epochs, n_steps, n_steps_test, agent_path, obs_shape,
                   act_shape, mdp, actor_mu_params, actor_sigma_params, critic_params,
                   agent, core, n, dataset, s, error>>
    /\ UNCHANGED net_vars

\* LoopHead leaving the loop one iteration early.
LoopHead_OffByOne(k) == IF k + 1 < n_epochs THEN "epoch_learn" ELSE "save_final"

\* Line 157: the loop runs while the index is below n_epochs.
LoopHead(k) == IF k < n_epochs THEN "epoch_learn" ELSE "save_final"

\* WarmUp with the arguments of the epoch's learn call.
WarmUp_AsEpochLearn ==
    /\ pc = "warmup"
    /\ Record([Call("learn") EXCEPT !.n_steps = n_steps, !.n_steps_per_fit = 1])
    /\ agent' = agent
    /\ n' = 0
    /\ pc' = IF 0 < n_epochs THEN "epoch_learn" ELSE "save_final"
    /\ UNCHANGED <<env_type, n_epochs, n_steps, n_steps_test, agent_path, obs_shape,
                   act_shape, mdp, actor_mu_params, actor_sigma_params, critic_params,
                   core, dataset, s, files, error>>
    /\ UNCHANGED net_vars

\* Line 155: warm-up collection, then the loop is entered.
WarmUp ==
    /\ pc = "warmup"
    /\ Record([Call("learn") EXCEPT !.n_steps = initial_replay_size,
                                    !.n_steps_per_fit = initial_replay_size])
    /\ agent' = agent
    /\ n' = 0
    /\ pc' = LoopHead(0)
    /\ UNCHANGED <<env_type, n_epochs, n_steps, n_steps_test, agent_path, obs_shape,
                   act_shape, mdp, actor_mu_params, actor_sigma_params, critic_params,
                   core, dataset, s, files, error>>
    /\ UNCHANGED net_vars

\* Line 158.
EpochLearn ==
    /\ pc = "epoch_learn"
    /\ Record([Call("learn") EXCEPT !.n_steps = n_steps, !.n_steps_per_fit = 1])
    /\ agent' = agent
    /\ pc' = "epoch_evaluate"
    /\ UNCHANGED <<env_type, n_epochs, n_steps, n_steps_test, agent_path, obs_shape,
                   act_shape, mdp, actor_mu_params, actor_sigma_params, critic_params,
                   core, n, dataset, s, files, error>>
    /\ UNCHANGED net_vars

\* Lines 159-160.
EpochEvaluate ==
    /\ pc = "epoch_evaluate"
    /\ Record([Call("evaluate") EXCEPT !.n_steps = n_steps_test, !.render = FALSE])
    /\ dataset' = NumEvaluate + 1
    /\ s' = NumEvaluate + 1
    /\ pc' = "epoch_log"
    /\ UNCHANGED <<env_type, n_epochs, n_steps, n_steps_test, agent_path, obs_shape,
                   act_shape, mdp, actor_mu_params, actor_sigma_params, critic_params,
                   agent, core, n, files, error>>
    /\ UNCHANGED net_vars

\* EpochLog logging under the loop variable n instead of n + 1.
EpochLog_IndexN ==
    /\ pc = "epoch_log"
    /\ Record([Call("epoch_info") EXCEPT !.epoch = n, !.J_of = dataset,
                                         !.R_of = dataset, !.E_of = s])
    /\ n' = IF n + 1 < n_epochs THEN n + 1 ELSE n
    /\ pc' = IF n + 1 < n_epochs THEN "epoch_learn" ELSE "save_final"
    /\ UNCHANGED <<env_type, n_epochs, n_steps, n_steps_test, agent_path, obs_shape,
                   act_shape, mdp, actor_mu_params, actor_sigma_params, critic_params,
                   agent, core, dataset, s, files, error>>
    /\ UNCHANGED net_vars

\* Lines 162-166, and the step of the loop to its next index.
EpochLog ==
    /\ pc = "epoch_log"
    /\ Record([Call("epoch_info") EXCEPT !.epoch = n + 1, !.J_of = dataset,
                                         !.R_of = dataset, !.E_of = s])
    /\ n' = IF n + 1 < n_epochs THEN n + 1 ELSE n
    /\ pc' = LoopHead(n + 1)
    /\ UNCHANGED <<env_type, n_epochs, n_steps, n_steps_test, agent_path, obs_shape,
                   act_shape, mdp, actor_mu_params, actor_sigma_params, critic_params,
                   agent, core, dataset, s, files, error>>
    /\ UNCHANGED net_vars

\* Line 168.
SaveFinal ==
    /\ pc = "save_final"
    /\ Record([Call("save") EXCEPT !.path = FinalPath(env_type)])
    /\ files' = files \cup {FinalPath(env_type)}
    /\ pc' = "prompt"
    /\ UNCHANGED <<env_type, n_epochs, n_steps, n_steps_test, agent_path, obs_shape,
                   act_shape, mdp, actor_mu_params, actor_sigma_params, critic_params,
                   agent, core, n, dataset, s, error>>
    /\ UNCHANGED net_vars

\* Prompt printing the message without calling input().
Prompt_NoWait ==
    /\ pc = "prompt"
    /\ calls' = Append(calls, Call("info"))
    /\ pc' = "demo"
    /\ UNCHANGED <<env_type, n_epochs, n_steps, n_steps_test, agent_path, obs_shape,
                   act_shape, mdp, actor_mu_params, actor_sigma_params, critic_params,
                   agent, core, n, dataset, s, files, error>>
    /\ UNCHANGED net_vars

\* Lines 170-171: the prompt, and the call of input(), which blocks.
Prompt ==
    /\ pc = "prompt"
    /\ calls' = calls \o <<Call("info"), Call("input")>>
    /\ pc' = "wait_input"
    /\ UNCHANGED <<env_type, n_epochs, n_steps, n_steps_test, agent_path, obs_shape,
                   act_shape, mdp, actor_mu_params, actor_sigma_params, critic_params,
                   agent, core, n, dataset, s, files, error>>
    /\ UNCHANGED net_vars

\* Line 171: input() returns once the user has typed a line, or raises
\* EOFError when standard input is at its end, which ends the run.
UserInput ==
    /\ pc = "wait_input"
    /\ \/ /\ Record(Call("input_returned"))
          /\ pc' = "demo"
          /\ error' = error
       \/ /\ calls' = calls
          /\ pc' = "raised"
          /\ error' = "EOFError"
    /\ UNCHANGED <<env_type, n_epochs, n_steps, n_steps_test, agent_path, obs_shape,
                   act_shape, mdp, actor_mu_params, actor_sigma_params, critic_params,
                   agent, core, n, dataset, s, files>>
    /\ UNCHANGED net_vars

\* Line 172.
Demo ==
    /\ pc = "demo"
    /\ Record([Call("evaluate") EXCEPT !.n_episodes = DemoEpisodes, !.render = TRUE])
    /\ pc' = "done"
    /\ UNCHANGED <<env_type, n_epochs, n_steps, n_steps_test, agent_path, obs_shape,
                   act_shape, mdp, actor_mu_params, actor_sigma_params, critic_params,
                   agent, core, n, dataset, s, files, error>>
    /\ UNCHANGED net_vars

\* The steps the program takes by itself.
ProgramNext ==
    \/ SelectEnv
    \/ BuildParams
    \/ BuildAgent
    \/ LoadAndBuildCore
    \/ EvaluateOnly
    \/ BaselineEvaluate
    \/ BaselineLog
    \/ SaveInitial
    \/ WarmUp
    \/ EpochLearn
    \/ EpochEvaluate
    \/ EpochLog
    \/ SaveFinal
    \/ Prompt
    \/ Demo

Next == ProgramNext \/ UserInput

Spec == Init /\ [][Next]_vars

\* ------------------------------------------------- network specification
\* The forward passes applied to batches of every size within the bounds.
DriverIdle ==
    /\ pc = "idle"
    /\ env_type = "defend"
    /\ n_epochs = 0
    /\ n_steps = 1
    /\ n_steps_test = 1
    /\ agent_path = None
    /\ obs_shape = <<1>>
    /\ act_shape = <<1>>
    /\ mdp = None
    /\ actor_mu_params = NoParams
    /\ actor_sigma_params = NoParams
    /\ critic_params = NoParams
    /\ agent = NoAgent
    /\ core = FALSE
    /\ n = 0
    /\ dataset = 0
    /\ s = 0
    /\ files = {}
    /\ error = None
    /\ calls = <<>>

InitNet ==
    /\ DriverIdle
    /\ net_op = "none"
    /\ net_dims \in (1..MaxBatch) \X (1..MaxDim) \X (1..MaxDim) \X (1..MaxFeatures)
    /\ net_in = <<>>
    /\ net_out = <<>>

B == net_dims[1]
ObsDim == net_dims[2]
ActionDim == net_dims[3]
FeatureWidth == net_dims[4]

CriticApply ==
    /\ net_op = "none"
    /\ net_op' = "critic"
    /\ net_in' = << <<B, ObsDim>>, <<B, ActionDim>> >>
    /\ net_out' = CriticForward([set |-> TRUE, network |-> "CriticNetwork",
                                 n_features |-> FeatureWidth,
                                 input_shape |-> <<ObsDim + ActionDim>>,
                                 output_shape |-> <<1>>],
                                <<B, ObsDim>>, <<B, ActionDim>>)
    /\ UNCHANGED net_dims
    /\ UNCHANGED driver_vars

ActorApply ==
    /\ net_op = "none"
    /\ net_op' = "actor"
    /\ \E state \in {<<B, ObsDim>>, <<B, 1, ObsDim>>} :
        /\ net_in' = <<state>>
        /\ net_out' = ActorForward([set |-> TRUE, network |-> "ActorNetwork",
                                    n_features |-> FeatureWidth,
                                    input_shape |-> <<ObsDim>>,
                                    output_shape |-> <<ActionDim>>],
                                   state)
    /\ UNCHANGED net_dims
    /\ UNCHANGED driver_vars

NextNet == CriticApply \/ ActorApply

SpecNet == InitNet /\ [][NextNet]_vars

\* ------------------------------------------------------------- properties
ValidEnv == env_type \in {"hit", "defend"}
TrainingRun == agent_path = None /\ ValidEnv

\* The calls to the trainer, the logger's epoch entries and the agent's saves.
TrainCalls == SelectSeq(calls, LAMBDA c : c.op \in {"evaluate", "epoch_info", "learn", "save"})
\* The same without the saves.
PhaseCalls == SelectSeq(calls, LAMBDA c : c.op \in {"evaluate", "epoch_info", "learn"})
EpochLogs == SelectSeq(calls, LAMBDA c : c.op = "epoch_info")
EpochLearns == SelectSeq(calls, LAMBDA c : c.op = "learn" /\ c.n_steps_per_fit = 1)

BaselineEvaluateCall == [Call("evaluate") EXCEPT !.n_steps = n_steps_test, !.render = TRUE]
EpochZeroLog == [Call("epoch_info") EXCEPT !.epoch = 0, !.J_of = 1, !.R_of = 1, !.E_of = 1]
SaveInitialCall == [Call("save") EXCEPT !.path = InitialPath(env_type)]
SaveFinalCall == [Call("save") EXCEPT !.path = FinalPath(env_type)]
WarmUpCall == [Call("learn") EXCEPT !.n_steps = 5000, !.n_steps_per_fit = 5000]
EpochLearnCall == [Call("learn") EXCEPT !.n_steps = n_steps, !.n_steps_per_fit = 1]
EpochEvaluateCall == [Call("evaluate") EXCEPT !.n_steps = n_steps_test, !.render = FALSE]
EpochLogCall(k) == [Call("epoch_info") EXCEPT !.epoch = k, !.J_of = k + 1,
                                             !.R_of = k + 1, !.E_of = k + 1]
DemoCall == [Call("evaluate") EXCEPT !.n_episodes = 5, !.render = TRUE]
EvaluateOnlyCall == [Call("evaluate") EXCEPT !.n_episodes = 20, !.render = TRUE]

Count(op) == Cardinality(CallsOf(op))
Positions(c) == {i \in 1..Len(calls) : calls[i] = c}
\* A run ended by EOFError ended at the wait for input.
EndedAtWait == pc = "raised" /\ error = "EOFError"
AfterWarmUp == \/ pc \in {"epoch_learn", "epoch_evaluate", "epoch_log", "save_final",
                          "prompt", "wait_input", "demo", "done"}
               \/ EndedAtWait
AfterLoop == pc \in {"save_final", "prompt", "wait_input", "demo", "done"} \/ EndedAtWait

\* C1: "hit" selects AirHockeyHit and "defend" AirHockeyDefend; any other
\* env_type raises NotImplementedError, and in such a run no environment,
\* network configuration, agent or trainer is ever constructed and no
\* evaluate, learn, save or load call is ever made.
C1_EnvSelection ==
    /\ (env_type = "hit" /\ pc # "start") =>
            /\ mdp = "AirHockeyHit"
            /\ Count("AirHockeyHit") = 1 /\ Count("AirHockeyDefend") = 0
            /\ error # "NotImplementedError"
    /\ (env_type = "defend" /\ pc # "start") =>
            /\ mdp = "AirHockeyDefend"
            /\ Count("AirHockeyDefend") = 1 /\ Count("AirHockeyHit") = 0
            /\ error # "NotImplementedError"
    /\ ~ValidEnv =>
            /\ pc \in {"start", "raised"}
            /\ pc = "raised" => error = "NotImplementedError"
            /\ mdp = None
            /\ ~actor_mu_params.set /\ ~actor_sigma_params.set /\ ~critic_params.set
            /\ ~agent.built /\ ~core
            /\ files = {}
            /\ \A i \in 1..Len(calls) :
                 calls[i].op \notin {"AirHockeyHit", "AirHockeyDefend", "SAC", "Core",
                                     "evaluate", "learn", "save", "load"}
    /\ (pc = "raised" /\ error = "NotImplementedError") => ~ValidEnv

C1_Witness == pc = "raised" /\ error = "NotImplementedError" /\ env_type = "other"

\* What C2 says of every run with a checkpoint path: never a learn, save,
\* epoch log entry or wait for input, and every evaluation is the rendered
\* one of 20 episodes.
EvaluateOnlyNeverTrains ==
    /\ Count("learn") = 0 /\ Count("save") = 0 /\ Count("epoch_info") = 0
    /\ Count("input") = 0 /\ files = {}
    /\ pc # "wait_input"
    /\ \A i \in CallsOf("evaluate") : calls[i] = EvaluateOnlyCall
    /\ Count("evaluate") <= 1

\* What C2 says of the run's end: the agent was loaded from the path and
\* evaluated exactly once, after the load.
LoadedAndEvaluatedOnce ==
    /\ Count("evaluate") = 1 /\ Count("load") = 1
    /\ agent.loaded_from = agent_path
    /\ \A i \in CallsOf("load") :
         /\ calls[i].path = agent_path
         /\ \A j \in CallsOf("evaluate") : i < j

\* C2 as stated: every run with a checkpoint path and a valid env_type ends
\* having loaded the agent and made exactly one rendered 20-episode
\* evaluation, and never learns, saves, logs an epoch or waits for input.
C2_Original ==
    (agent_path # None /\ ValidEnv) =>
        /\ EvaluateOnlyNeverTrains
        /\ ~ENABLED Next => LoadedAndEvaluatedOnce

\* C2 amended: when the load succeeds the run ends having made exactly one
\* rendered 20-episode evaluation with the loaded agent; when the load raises
\* the run ends with that error and no evaluation; in neither case does it
\* ever learn, save, log an epoch or wait for input.
C2_EvaluateOnly ==
    (agent_path # None /\ ValidEnv) =>
        /\ EvaluateOnlyNeverTrains
        /\ pc \notin {"done", "raised"} => ENABLED ProgramNext
        /\ pc = "done" =>
            /\ LoadedAndEvaluatedOnce
            /\ agent \in {[ck EXCEPT !.loaded_from = agent_path] : ck \in CheckpointAgents}
            /\ error = None
            /\ ~ENABLED Next
        /\ pc = "raised" =>
            /\ error = "FileNotFoundError"
            /\ Count("load") = 1 /\ Count("evaluate") = 0 /\ Count("Core") = 0
            /\ agent.loaded_from = None /\ ~core
            /\ ~ENABLED Next
        /\ Count("load") = 0 => agent.loaded_from = None

C2_Witness ==
    /\ agent_path # None /\ ValidEnv /\ pc = "done" /\ Count("evaluate") = 1
    /\ agent.loaded_from = agent_path /\ agent.batch_size # batch_size

\* C3: in a training run the first calls are, in this order and once each,
\* the baseline evaluation, the epoch-0 log entry, the save of the initial
\* checkpoint and the warm-up learn call of 5000 steps; epoch training comes
\* only after them.
C3_StartupOrder ==
    TrainingRun =>
        /\ \A i \in 1..Len(TrainCalls) :
             /\ i = 1 => TrainCalls[i] = BaselineEvaluateCall
             /\ i = 2 => TrainCalls[i] = EpochZeroLog
             /\ i = 3 => TrainCalls[i] = SaveInitialCall
             /\ i = 4 => TrainCalls[i] = WarmUpCall
             /\ i > 4 => TrainCalls[i] \notin {BaselineEvaluateCall, EpochZeroLog,
                                              SaveInitialCall, WarmUpCall}
             /\ TrainCalls[i] = EpochLearnCall => i > 4
        /\ AfterWarmUp => Len(TrainCalls) >= 4

C3_Witness == TrainingRun /\ pc = "epoch_evaluate" /\ Len(EpochLearns) = 1

\* C4 as stated: the initial checkpoint exists only once the warm-up learn
\* call has been made, and the final one only once all epochs are complete.
C4_Original ==
    TrainingRun =>
        /\ InitialPath(env_type) \in files => Positions(WarmUpCall) # {}
        /\ FinalPath(env_type) \in files =>
             /\ Len(EpochLearns) = n_epochs
             /\ Len(EpochLogs) = n_epochs + 1

\* C4 amended: the initial checkpoint is saved after the baseline evaluation
\* and its log entry and before the warm-up learn call; the final checkpoint
\* is saved only once the warm-up and all n_epochs epochs are complete.
C4_Checkpoints ==
    TrainingRun =>
        /\ files \subseteq {InitialPath(env_type), FinalPath(env_type)}
        /\ InitialPath(env_type) \in files <=> Positions(SaveInitialCall) # {}
        /\ FinalPath(env_type) \in files <=> Positions(SaveFinalCall) # {}
        /\ \A i \in Positions(SaveInitialCall) :
             /\ \E j \in Positions(EpochZeroLog) : j < i
             /\ \A j \in CallsOf("learn") : i < j
        /\ Positions(WarmUpCall) # {} => InitialPath(env_type) \in files
        /\ \A i \in Positions(SaveFinalCall) :
             /\ \E j \in Positions(WarmUpCall) : j < i
             /\ Cardinality({j \in 1..(i - 1) : calls[j] = EpochLearnCall}) = n_epochs
             /\ Cardinality({j \in 1..(i - 1) : calls[j].op = "epoch_info"}) = n_epochs + 1
             /\ \A j \in CallsOf("learn") : j < i

C4_Witness ==
    /\ TrainingRun /\ n_epochs >= 1
    /\ files = {InitialPath(env_type), FinalPath(env_type)}

\* C5: the loop runs exactly n_epochs epochs, each one epoch learn call
\* (n_steps steps, a fit per step), one non-rendered evaluation of
\* n_steps_test steps and one log entry whose J, R and entropy come from
\* that evaluation's dataset; the log indices are 0, 1, ..., n_epochs in order.
C5_EpochLoop ==
    TrainingRun =>
        /\ \A i \in 1..Len(EpochLogs) : EpochLogs[i].epoch = i - 1
        /\ Len(EpochLogs) <= n_epochs + 1
        /\ Len(EpochLearns) <= n_epochs
        /\ \A i \in 1..Len(PhaseCalls) :
             /\ i = 1 => PhaseCalls[i] = BaselineEvaluateCall
             /\ i = 2 => PhaseCalls[i] = EpochZeroLog
             /\ i = 3 => PhaseCalls[i] = WarmUpCall
             /\ (i > 3 /\ i <= 3 * n_epochs + 3 /\ i % 3 = 1) => PhaseCalls[i] = EpochLearnCall
             /\ (i > 3 /\ i <= 3 * n_epochs + 3 /\ i % 3 = 2) => PhaseCalls[i] = EpochEvaluateCall
             /\ (i > 3 /\ i <= 3 * n_epochs + 3 /\ i % 3 = 0) =>
                    PhaseCalls[i] = EpochLogCall((i \div 3) - 1)
             /\ i > 3 * n_epochs + 3 => PhaseCalls[i] = DemoCall
        /\ \A i \in CallsOf("epoch_info") :
             /\ i > 1 /\ calls[i - 1].op = "evaluate"
             /\ LET ds == Cardinality({j \in CallsOf("evaluate") : j < i})
                IN  calls[i].J_of = ds /\ calls[i].R_of = ds /\ calls[i].E_of = ds
        /\ AfterLoop =>
             /\ Len(EpochLogs) = n_epochs + 1
             /\ Len(EpochLearns) = n_epochs
             /\ Len(PhaseCalls) >= 3 * n_epochs + 3

C5_Witness == TrainingRun /\ n_epochs >= 2 /\ pc = "save_final" /\ Len(EpochLogs) = n_epochs + 1

\* C6: after the last epoch the final checkpoint is saved, then the run
\* waits for user input, and only then the rendered 5-episode demonstration
\* runs; while the input has not arrived, and when the wait ends with
\* EOFError instead, the checkpoint is on disk and no demonstration has run;
\* the run waits nowhere else.
C6_FinalPhase ==
    TrainingRun =>
        /\ \A i \in Positions(DemoCall) :
             \E a, b, c \in 1..(i - 1) :
                /\ a < b /\ b < c
                /\ calls[a] = SaveFinalCall
                /\ calls[b].op = "input"
                /\ calls[c].op = "input_returned"
        /\ Cardinality(Positions(DemoCall)) <= 1
        /\ \A i \in CallsOf("evaluate") :
             calls[i].n_episodes > 0 => calls[i] = DemoCall
        /\ \A i \in Positions(SaveFinalCall) :
             Cardinality({j \in 1..(i - 1) : calls[j].op = "epoch_info"}) = n_epochs + 1
        /\ \A i \in CallsOf("input") : \E a \in 1..(i - 1) : calls[a] = SaveFinalCall
        /\ Count("input") <= 1
        /\ pc = "wait_input" =>
             /\ FinalPath(env_type) \in files
             /\ Positions(DemoCall) = {}
             /\ Count("input") = 1 /\ Count("input_returned") = 0
             /\ ~ENABLED ProgramNext
        /\ pc \notin {"wait_input", "done", "raised"} => ENABLED ProgramNext
        /\ pc = "done" => Cardinality(Positions(DemoCall)) = 1 /\ error = None
        /\ pc = "raised" =>
             /\ error = "EOFError"
             /\ FinalPath(env_type) \in files
             /\ Positions(DemoCall) = {}
             /\ Count("input") = 1 /\ Count("input_returned") = 0
             /\ ~ENABLED Next

C6_Witness == TrainingRun /\ pc = "done" /\ Positions(DemoCall) # {}

\* C9: the critic's input width is the actor's input width (the last entry
\* of the observation shape) plus the action width; the actor's output
\* width is the action width; the critic's output width is 1.
C9_Widths ==
    critic_params.set =>
        /\ ActorNInput(actor_mu_params) = Last(obs_shape)
        /\ ActorNInput(actor_sigma_params) = Last(obs_shape)
        /\ CriticNInput(critic_params) = ActorNInput(actor_mu_params) + act_shape[1]
        /\ ActorNOutput(actor_mu_params) = act_shape[1]
        /\ ActorNOutput(actor_sigma_params) = act_shape[1]
        /\ CriticNOutput(critic_params) = 1

\* C7: the critic's result has shape (batch_size,).
C7_CriticShape == net_op = "critic" => net_out = <<B>>

\* C8: the actor's result has shape (batch_size, action_dim), for a state
\* batch with or without the singleton middle axis.
C8_ActorShape == net_op = "actor" => net_out = <<B, ActionDim>>
====
